---- MODULE Spec2Model ----
(***************************************************************************)
(* A model of the DripEdge Market Service SDK client                       *)
(* (market/src/MarketServiceClient.ts, market/src/types.ts).               *)
(*                                                                         *)
(* Conventions                                                             *)
(*   - An optional JavaScript value is a sequence of length 0 or 1:        *)
(*     None is `undefined`, Some(v) is the value v.                        *)
(*   - Strings that the code parses (API keys, version strings, the        *)
(*     retry-after header) are sequences of one-character strings, so      *)
(*     that startsWith, split, Number and parseInt are computed.           *)
(*   - Strings that the code only compares or passes through are TLA+      *)
(*     strings.                                                            *)
(***************************************************************************)
EXTENDS Integers, Sequences, FiniteSets, TLC

VARIABLES
    phase,             \* "new" before the constructor ran, "ready" after it returned, "failed" after it threw
    config,            \* this.config (the caller's MarketServiceConfig object)
    environment,       \* this.environment
    baseURL,           \* this.baseURL
    client,            \* this.client: the axios instance (its default headers), None before axios.create
    versionCallbacks,  \* this.versionCallbacks
    versionStatus,     \* this.versionStatus
    unsubscribers,     \* callbacks for which an unsubscribe closure was handed out by onVersionChange
    warnings,          \* console.warn lines emitted so far
    ctorError,         \* what the constructor threw, None if it did not throw
    inflight,          \* requests dispatched and not yet completed
    nextId,            \* number of requests dispatched so far
    now,               \* the clock read by `new Date()`
    lastKeySet,        \* history: argument of the latest setApiKey call, None if never called
    lastJwtOp,         \* history: the latest of setJwtToken(t) / clearJwtToken(), None if neither was called
    last,              \* history: the call completed by the latest step (response seen, tracker effects, outcome)
    pure,              \* a call of a pure helper: its arguments and, once it returned, its result
    hook               \* a mounted useMarkets hook: its React state and the fetches it has started

vars == << phase, config, environment, baseURL, client, versionCallbacks,
           versionStatus, unsubscribers, warnings, ctorError, inflight,
           nextId, now, lastKeySet, lastJwtOp, last, pure, hook >>

\* the state of a client instance
clientVars == << phase, config, environment, baseURL, client, versionCallbacks,
                 versionStatus, unsubscribers, warnings, ctorError, inflight,
                 nextId, now, lastKeySet, lastJwtOp, last >>

(***************************************************************************)
(* Optional values and JavaScript truthiness                               *)
(***************************************************************************)
None == << >>
Some(v) == << v >>
IsSome(o) == o # None
Val(o) == o[1]

\* truthiness of an optional TLA+-string value: undefined and '' are falsy
Truthy(o) == IsSome(o) /\ Val(o) # ""

\* truthiness of an optional character-sequence string: undefined and '' are falsy
TruthyChars(o) == IsSome(o) /\ Val(o) # << >>

(***************************************************************************)
(* Bounds                                                                  *)
(***************************************************************************)
MaxSubs == 2        \* longest subscriber list explored
MaxInflight == 1    \* most requests in flight at once
MaxRequests == 3    \* most requests dispatched in one behaviour
MaxParts == 3       \* most dot-separated components of a generated version string
MaxAdders == 3      \* longest cost-adder list explored
MaxFetches == 3     \* most fetches one hook starts in one behaviour

(***************************************************************************)
(* Input domains                                                           *)
(***************************************************************************)
KeyLive  == << "m", "k", "_", "l", "i", "v", "e", "_", "a" >>
KeyLive2 == << "m", "k", "_", "l", "i", "v", "e", "_", "b" >>
KeyTest  == << "m", "k", "_", "t", "e", "s", "t", "_", "a" >>
KeyNear  == << "m", "k", "_", "l", "i", "v", "e" >>
LivePrefix == << "m", "k", "_", "l", "i", "v", "e", "_" >>

Environments == { "development", "staging", "production" }
CustomURL == "https://custom.example"

\* the SERVICE_URLS table
SERVICE_URLS ==
    [ development |-> "http://localhost:3002",
      staging     |-> "https://market-service-staging.dripedge.io",
      production  |-> "https://market-service.dripedge.io" ]

\* the application's callbacks, by what they do when invoked
Callbacks == { "cbA", "cbB", "cbThrow", "cbUnsub", "cbSub" }
CallbackBehaviour ==
    [ cbA     |-> "plain",        \* returns
      cbB     |-> "plain",        \* returns
      cbThrow |-> "throw",        \* throws an Error
      cbUnsub |-> "unsubscribe",  \* calls the unsubscribe function it got from onVersionChange
      cbSub   |-> "subscribe" ]   \* calls client.onVersionChange(cbB)

TrackerCallbacks == { "cbA", "cbThrow", "cbUnsub" }
ReentrantCallbacks == { "cbA", "cbUnsub", "cbSub" }

Tokens == { "tokA", "tokB" }

ConfigOf(k, e, u, j, cb) ==
    [ apiKey |-> k, environment |-> e, baseURL |-> u, jwtToken |-> j, onVersionChange |-> cb ]

AllConfigs ==
    { ConfigOf(k, e, u, j, cb) :
        k \in { None, Some(<< >>), Some(KeyLive), Some(KeyTest), Some(KeyNear) },
        e \in { None } \cup { Some(x) : x \in Environments },
        u \in { None, Some(""), Some(CustomURL) },
        j \in { None, Some("tokA") },
        cb \in { None, Some("cbA") } }

(***************************************************************************)
(* Configuration resolver                                                  *)
(***************************************************************************)
StartsWith(s, p) == Len(s) >= Len(p) /\ SubSeq(s, 1, Len(p)) = p

detectEnvironmentFromKey(apiKey) ==
    IF StartsWith(apiKey, LivePrefix) THEN "production" ELSE "development"

resolveBaseURL(cfg) ==
    IF Truthy(cfg.baseURL)
    THEN Val(cfg.baseURL)
    ELSE LET env == IF IsSome(cfg.environment) THEN Val(cfg.environment) ELSE "development"
         IN  SERVICE_URLS[env]

validateKeyEnvironment(apiKey, env) ==
    LET keyEnv == detectEnvironmentFromKey(apiKey)
    IN  (IF env = "production" /\ keyEnv # "production" THEN << "test-key-in-production" >> ELSE << >>)
        \o (IF env # "production" /\ keyEnv = "production" THEN << "live-key-outside-production" >> ELSE << >>)

(***************************************************************************)
(* MarketServiceError (types.ts)                                           *)
(***************************************************************************)
MarketServiceError(message, code, statusCode, retryAfter) ==
    [ name |-> "MarketServiceError", message |-> message, code |-> code,
      statusCode |-> statusCode, retryAfter |-> retryAfter ]

isAuthError(e) ==
    e.code \in { "INVALID_API_KEY", "EXPIRED_API_KEY", "MISSING_API_KEY",
                 "INVALID_JWT", "EXPIRED_JWT", "INSUFFICIENT_PERMISSIONS" }

isRateLimitError(e) == e.code = "RATE_LIMITED"

\* a variant of isRetryable that does not count status 504
isRetryableWithout504(e) ==
    isRateLimitError(e) \/ e.statusCode = Some(503)

isRetryable(e) ==
    isRateLimitError(e) \/ e.statusCode = Some(503) \/ e.statusCode = Some(504)

(***************************************************************************)
(* The transport: axios instance defaults and the per-request header merge *)
(***************************************************************************)
HeaderNames == { "X-API-Key", "Authorization", "X-Environment" }
NoHeaders == [ h \in HeaderNames |-> None ]

Bearer(token) == << "Bearer", token >>

\* axios.create({ headers: {...} }): the given headers become top-level
\* entries of instance.defaults.headers, next to the (empty) `common` group
axiosCreate(cfg, env, url) ==
    [ baseURL |-> url,
      top     |-> [ NoHeaders EXCEPT
                      !["X-API-Key"]     = cfg.apiKey,
                      !["X-Environment"] = Some(env),
                      !["Authorization"] = IF Truthy(cfg.jwtToken)
                                           THEN Some(Bearer(Val(cfg.jwtToken)))
                                           ELSE None ],
      common  |-> NoHeaders ]

\* headers a request carries: axios flattens defaults.headers.common first
\* and lays the top-level defaults.headers entries over it
requestHeaders(c) ==
    [ h \in HeaderNames |-> IF IsSome(c.top[h]) THEN c.top[h] ELSE c.common[h] ]

(***************************************************************************)
(* Initial state and constructor                                           *)
(***************************************************************************)
NoLast ==
    [ kind |-> "none", req |-> None, resp |-> None, before |-> None,
      cbsBefore |-> << >>, calls |-> << >>, outcome |-> None, at |-> 0,
      cause |-> "" ]

NoPure == [ fn |-> "none", args |-> << >>, given |-> << >>, result |-> None ]

InitClient(cfgs) ==
    /\ phase = "new"
    /\ config \in cfgs
    /\ environment = None
    /\ baseURL = None
    /\ client = None
    /\ versionCallbacks = << >>
    /\ versionStatus = None
    /\ unsubscribers = { }
    /\ warnings = << >>
    /\ ctorError = None
    /\ inflight = { }
    /\ nextId = 0
    /\ now = 0
    /\ lastKeySet = None
    /\ lastJwtOp = None
    /\ last = NoLast

\* useMarkets before its effect ran: the initial values of its three useState
\* cells; no fetch started yet
HookInitial ==
    [ markets |-> << >>, loading |-> TRUE, error |-> None,
      pending |-> { }, started |-> 0, settled |-> << >> ]

InitWith(cfgs) == InitClient(cfgs) /\ pure = NoPure /\ hook = HookInitial

\* a variant of apiKeyMissing that rejects only an absent key, not the empty one
apiKeyMissingOnlyUndefined(cfg) == cfg.apiKey = None

\* `!config.apiKey`
apiKeyMissing(cfg) == ~ TruthyChars(cfg.apiKey)

Construct ==
    /\ phase = "new"
    /\ IF apiKeyMissing(config)
       THEN /\ phase' = "failed"
            /\ ctorError' = Some(MarketServiceError("API key is required", "MISSING_API_KEY", None, None))
            /\ UNCHANGED << environment, baseURL, client, versionCallbacks, warnings >>
       ELSE LET env == IF IsSome(config.environment)
                       THEN Val(config.environment)
                       ELSE detectEnvironmentFromKey(
                                IF IsSome(config.apiKey) THEN Val(config.apiKey) ELSE << >>)
                url == resolveBaseURL(config)
            IN  /\ phase' = "ready"
                /\ environment' = Some(env)
                /\ baseURL' = Some(url)
                /\ warnings' = warnings \o validateKeyEnvironment(
                                              IF IsSome(config.apiKey) THEN Val(config.apiKey) ELSE << >>, env)
                /\ client' = Some(axiosCreate(config, env, url))
                /\ versionCallbacks' = IF IsSome(config.onVersionChange)
                                       THEN << Val(config.onVersionChange) >>
                                       ELSE << >>
                /\ ctorError' = None
    /\ UNCHANGED << config, versionStatus, unsubscribers, inflight, nextId, now,
                    lastKeySet, lastJwtOp >>
    /\ last' = NoLast
    /\ UNCHANGED << pure, hook >>

(***************************************************************************)
(* Key rotation and token set / clear                                      *)
(***************************************************************************)
\* a variant of setApiKey that resolves the environment and the base URL again
setApiKeyResolvingAgain(k) ==
    /\ phase = "ready"
    /\ config' = [ config EXCEPT !.apiKey = Some(k) ]
    /\ client' = Some([ Val(client) EXCEPT !.common["X-API-Key"] = Some(k) ])
    /\ lastKeySet' = Some(k)
    /\ environment' = Some(IF IsSome(config.environment) THEN Val(config.environment)
                            ELSE detectEnvironmentFromKey(k))
    /\ baseURL' = Some(IF Truthy(config.baseURL) THEN Val(config.baseURL)
                        ELSE SERVICE_URLS[Val(environment')])
    /\ UNCHANGED << phase, versionCallbacks, versionStatus,
                    unsubscribers, warnings, ctorError, inflight, nextId, now,
                    lastJwtOp >>
    /\ last' = NoLast
    /\ UNCHANGED << pure, hook >>

setApiKey(k) ==
    /\ phase = "ready"
    /\ config' = [ config EXCEPT !.apiKey = Some(k) ]
    /\ client' = Some([ Val(client) EXCEPT !.common["X-API-Key"] = Some(k) ])
    /\ lastKeySet' = Some(k)
    /\ UNCHANGED << phase, environment, baseURL, versionCallbacks, versionStatus,
                    unsubscribers, warnings, ctorError, inflight, nextId, now,
                    lastJwtOp >>
    /\ last' = NoLast
    /\ UNCHANGED << pure, hook >>

setJwtToken(t) ==
    /\ phase = "ready"
    /\ config' = [ config EXCEPT !.jwtToken = Some(t) ]
    /\ client' = Some([ Val(client) EXCEPT !.common["Authorization"] = Some(Bearer(t)) ])
    /\ lastJwtOp' = Some(<< "set", t >>)
    /\ UNCHANGED << phase, environment, baseURL, versionCallbacks, versionStatus,
                    unsubscribers, warnings, ctorError, inflight, nextId, now,
                    lastKeySet >>
    /\ last' = NoLast
    /\ UNCHANGED << pure, hook >>

clearJwtToken ==
    /\ phase = "ready"
    /\ config' = [ config EXCEPT !.jwtToken = None ]
    /\ client' = Some([ Val(client) EXCEPT !.common["Authorization"] = None ])
    /\ lastJwtOp' = Some(<< "clear", "" >>)
    /\ UNCHANGED << phase, environment, baseURL, versionCallbacks, versionStatus,
                    unsubscribers, warnings, ctorError, inflight, nextId, now,
                    lastKeySet >>
    /\ last' = NoLast
    /\ UNCHANGED << pure, hook >>

(***************************************************************************)
(* Strings the code parses: split('.'), Number(), parseInt(, 10)           *)
(* The alphabet of the model's strings is digits, '.', '-', '_' and        *)
(* letters (no whitespace, no exponent or hexadecimal notation).           *)
(***************************************************************************)
Digits == { "0", "1", "2", "3", "4", "5", "6", "7", "8", "9" }

DigitValue(c) ==
    CASE c = "0" -> 0 [] c = "1" -> 1 [] c = "2" -> 2 [] c = "3" -> 3 [] c = "4" -> 4
      [] c = "5" -> 5 [] c = "6" -> 6 [] c = "7" -> 7 [] c = "8" -> 8 [] c = "9" -> 9

\* a JavaScript number: a value or NaN
Num(n) == [ nan |-> FALSE, n |-> n ]
NaN == [ nan |-> TRUE, n |-> 0 ]

RECURSIVE DecimalValue(_)
DecimalValue(ds) ==
    IF ds = << >> THEN 0
    ELSE 10 * DecimalValue(SubSeq(ds, 1, Len(ds) - 1)) + DigitValue(ds[Len(ds)])

\* s.split(sep)
RECURSIVE splitFrom(_, _, _, _, _)
splitFrom(s, sep, i, cur, acc) ==
    IF i > Len(s) THEN Append(acc, cur)
    ELSE IF s[i] = sep THEN splitFrom(s, sep, i + 1, << >>, Append(acc, cur))
    ELSE splitFrom(s, sep, i + 1, Append(cur, s[i]), acc)

split(s, sep) == splitFrom(s, sep, 1, << >>, << >>)

\* Number(s): '' is 0, a digit string is its value, anything else is NaN
Number(s) ==
    IF s = << >> THEN Num(0)
    ELSE IF \A i \in 1..Len(s) : s[i] \in Digits THEN Num(DecimalValue(s))
    ELSE NaN

\* the longest prefix of s made of digits
RECURSIVE digitPrefix(_)
digitPrefix(s) ==
    IF s = << >> \/ Head(s) \notin Digits THEN << >>
    ELSE << Head(s) >> \o digitPrefix(Tail(s))

\* parseInt(s, 10): optional sign, then the leading digits; NaN without a digit
parseInt(s) ==
    LET neg  == s # << >> /\ Head(s) = "-"
        rest == IF neg THEN Tail(s) ELSE s
        ds   == digitPrefix(rest)
    IN  IF ds = << >> THEN NaN
        ELSE Num(IF neg THEN 0 - DecimalValue(ds) ELSE DecimalValue(ds))

(***************************************************************************)
(* Version-status tracker                                                  *)
(***************************************************************************)
SDK_VERSION == << "1", ".", "1", ".", "0" >>
MinimumBaseline == << "1", ".", "0", ".", "0" >>

\* parts[i] || 0, for the 0-based index i: a missing component, NaN and 0 all give 0
partOrZero(parts, i) ==
    IF i + 1 > Len(parts) \/ parts[i + 1].nan THEN 0 ELSE parts[i + 1].n

\* a variant of compareLoop that stops after the minor component
RECURSIVE compareLoopTwoComponents(_, _, _)
compareLoopTwoComponents(partsA, partsB, i) ==
    IF ~ (i < 2) THEN 0
    ELSE LET partA == partOrZero(partsA, i)
             partB == partOrZero(partsB, i)
         IN  IF partA < partB THEN -1
             ELSE IF partA > partB THEN 1
             ELSE compareLoopTwoComponents(partsA, partsB, i + 1)

RECURSIVE compareLoop(_, _, _)
compareLoop(partsA, partsB, i) ==
    IF ~ (i < 3) THEN 0
    ELSE LET partA == partOrZero(partsA, i)
             partB == partOrZero(partsB, i)
         IN  IF partA < partB THEN -1
             ELSE IF partA > partB THEN 1
             ELSE compareLoop(partsA, partsB, i + 1)

mapNumber(parts) == [ i \in 1..Len(parts) |-> Number(parts[i]) ]

compareVersions(a, b) ==
    compareLoop(mapNumber(split(a, ".")), mapNumber(split(b, ".")), 0)

\* the response headers the client reads
HeadersOf(st, la, mi, me, ra) ==
    [ status |-> st, latest |-> la, minimum |-> mi, message |-> me, retryAfter |-> ra ]

\* a variant of hasVersionHeaders that also counts x-sdk-message
hasVersionHeadersOrMessage(h) ==
    Truthy(h.status) \/ TruthyChars(h.latest) \/ TruthyChars(h.minimum) \/ Truthy(h.message)

hasVersionHeaders(h) ==
    Truthy(h.status) \/ TruthyChars(h.latest) \/ TruthyChars(h.minimum)

\* a variant of newVersionStatus that reports an update when latest equals current
newVersionStatusAvailableOnEqual(h, clock) ==
    [ current         |-> SDK_VERSION,
      latest          |-> IF TruthyChars(h.latest) THEN Val(h.latest) ELSE SDK_VERSION,
      minimum         |-> IF TruthyChars(h.minimum) THEN Val(h.minimum) ELSE MinimumBaseline,
      status          |-> IF Truthy(h.status) THEN Val(h.status) ELSE "unknown",
      message         |-> IF Truthy(h.message) THEN h.message ELSE None,
      updateRequired  |-> h.status = Some("unsupported") \/ h.status = Some("deprecated"),
      updateAvailable |-> IF TruthyChars(h.latest)
                          THEN compareVersions(SDK_VERSION, Val(h.latest)) <= 0
                          ELSE FALSE,
      checkedAt       |-> clock ]

newVersionStatus(h, clock) ==
    [ current         |-> SDK_VERSION,
      latest          |-> IF TruthyChars(h.latest) THEN Val(h.latest) ELSE SDK_VERSION,
      minimum         |-> IF TruthyChars(h.minimum) THEN Val(h.minimum) ELSE MinimumBaseline,
      status          |-> IF Truthy(h.status) THEN Val(h.status) ELSE "unknown",
      message         |-> IF Truthy(h.message) THEN h.message ELSE None,
      updateRequired  |-> h.status = Some("unsupported") \/ h.status = Some("deprecated"),
      updateAvailable |-> IF TruthyChars(h.latest)
                          THEN compareVersions(SDK_VERSION, Val(h.latest)) < 0
                          ELSE FALSE,
      checkedAt       |-> clock ]

\* a variant of statusChanged that compares the status field only
statusChangedIgnoringLatest(old, new) ==
    \/ old = None
    \/ Val(old).status # new.status

statusChanged(old, new) ==
    \/ old = None
    \/ Val(old).status # new.status
    \/ Val(old).latest # new.latest

\* callbacks.indexOf(cb) followed by splice(index, 1): drop the first occurrence
RECURSIVE removeFirst(_, _)
removeFirst(cbs, cb) ==
    IF cbs = << >> THEN << >>
    ELSE IF Head(cbs) = cb THEN Tail(cbs)
    ELSE << Head(cbs) >> \o removeFirst(Tail(cbs), cb)

\* one invocation cb(newStatus); t is the tracker state the callback can reach:
\* the live subscriber list, the unsubscribe closures, the invocations so far
invoke(cb, t, new) ==
    LET called == [ t EXCEPT !.calls = Append(t.calls, << cb, new >>) ]
        what   == CallbackBehaviour[cb]
    IN  CASE what = "plain" -> called
          [] what = "throw" -> [ called EXCEPT !.thrown = TRUE ]
          [] what = "unsubscribe" ->
               IF cb \in called.unsub
               THEN [ called EXCEPT !.cbs = removeFirst(called.cbs, cb) ]
               ELSE called
          [] what = "subscribe" ->
               [ called EXCEPT !.cbs = Append(called.cbs, "cbB"),
                               !.unsub = called.unsub \cup { "cbB" } ]

\* Array.prototype.forEach over the live array: the index runs from 0 to the
\* length read before the first call, an index no longer in the array is
\* skipped, and a throwing callback ends the loop
\* a variant of forEachFrom that goes on after a callback threw
RECURSIVE forEachFromPastThrow(_, _, _, _)
forEachFromPastThrow(k, len, t, new) ==
    IF k > len THEN t
    ELSE IF k > Len(t.cbs) THEN forEachFromPastThrow(k + 1, len, t, new)
    ELSE forEachFromPastThrow(k + 1, len, invoke(t.cbs[k], t, new), new)

RECURSIVE forEachFrom(_, _, _, _)
forEachFrom(k, len, t, new) ==
    IF k > len \/ t.thrown THEN t
    ELSE IF k > Len(t.cbs) THEN forEachFrom(k + 1, len, t, new)
    ELSE forEachFrom(k + 1, len, invoke(t.cbs[k], t, new), new)

forEachCallback(t, new) == forEachFrom(1, Len(t.cbs), t, new)

\* a variant of parseVersionHeaders that stores the new status only on a transition
parseVersionHeadersStoringOnTransition(h, clock, vs, cbs, unsub) ==
    LET t0 == [ vs |-> vs, cbs |-> cbs, unsub |-> unsub, calls |-> << >>, thrown |-> FALSE ]
    IN  IF ~ hasVersionHeaders(h) THEN t0
        ELSE LET new == newVersionStatus(h, clock)
                 t1  == [ t0 EXCEPT !.vs = Some(new) ]
             IN  IF statusChanged(vs, new) THEN forEachCallback(t1, new) ELSE t0

\* parseVersionHeaders(response): the tracker state after it
parseVersionHeaders(h, clock, vs, cbs, unsub) ==
    LET t0 == [ vs |-> vs, cbs |-> cbs, unsub |-> unsub, calls |-> << >>, thrown |-> FALSE ]
    IN  IF ~ hasVersionHeaders(h) THEN t0
        ELSE LET new == newVersionStatus(h, clock)
                 t1  == [ t0 EXCEPT !.vs = Some(new) ]
             IN  IF statusChanged(vs, new) THEN forEachCallback(t1, new) ELSE t1

\* getVersionStatus(): null is None
getVersionStatus == versionStatus

(***************************************************************************)
(* Error classifier                                                        *)
(***************************************************************************)
\* a response body after axios parsed it: the JSON value null, a string
\* (an empty or non-JSON body), or an object read as the ApiResponse envelope
BodyOf(shape, status, data, message, error, errorCode) ==
    [ shape |-> shape, status |-> status, data |-> data, message |-> message,
      error |-> error, errorCode |-> errorCode ]

NullBody == BodyOf("null", "", None, None, None, None)
StringBody == BodyOf("string", "", None, None, None, None)
Envelope(status, data, message, error, errorCode) ==
    BodyOf("object", status, data, message, error, errorCode)

\* an error that is not a MarketServiceError (same record shape, other name)
RawError(name, message) ==
    [ name |-> name, message |-> message, code |-> "", statusCode |-> None, retryAfter |-> None ]

Threw(e) == [ kind |-> "threw", error |-> e, value |-> None ]
Returned(v) == [ kind |-> "returned", error |-> RawError("", ""), value |-> Some(v) ]

\* the outcome of a callback that threw inside parseVersionHeaders
CallbackThrew == Threw(RawError("Error", "thrown by a version-change callback"))

\* handleError, branch `error.response`: reading a property of the null body
\* raises a TypeError before any MarketServiceError is built
handleErrorResponse(statusCode, h, data) ==
    LET retryAfter == IF TruthyChars(h.retryAfter) THEN Some(parseInt(Val(h.retryAfter))) ELSE None
        code0 == IF Truthy(data.errorCode) THEN Val(data.errorCode) ELSE "API_ERROR"
        code1 == IF statusCode = 401 THEN "INVALID_API_KEY" ELSE code0
        code2 == IF statusCode = 403 THEN "INSUFFICIENT_PERMISSIONS" ELSE code1
        code3 == IF statusCode = 429 THEN "RATE_LIMITED" ELSE code2
        msg   == IF Truthy(data.error) THEN Val(data.error)
                 ELSE IF Truthy(data.message) THEN Val(data.message)
                 ELSE "API request failed"
    IN  IF data.shape = "null"
        THEN Threw(RawError("TypeError", "Cannot read properties of null"))
        ELSE Threw(MarketServiceError(msg, code3, Some(statusCode), retryAfter))

\* a variant of handleErrorNoResponse that reports a gateway timeout status
handleErrorNoResponseAs504 ==
    Threw(MarketServiceError("No response from Market Service - check network connection",
                             "NETWORK_ERROR", Some(504), None))

\* handleError, branch `error.request`
handleErrorNoResponse ==
    Threw(MarketServiceError("No response from Market Service - check network connection",
                             "NETWORK_ERROR", None, None))

\* a variant of handleErrorOther that drops the original message
handleErrorOtherGeneric(message) ==
    Threw(MarketServiceError("Unknown error", "UNKNOWN_ERROR", None, None))

\* handleError, last branch: error.message || 'Unknown error'
handleErrorOther(message) ==
    Threw(MarketServiceError(IF message # "" THEN message ELSE "Unknown error",
                             "UNKNOWN_ERROR", None, None))

(***************************************************************************)
(* Request gateway: one kind per way of unwrapping the envelope            *)
(***************************************************************************)
\* getMarketsByBrand and getMarketsByClient return what getMarkets returns
ListOps == { "getMarkets", "getServiceableCounties", "getCostAdders", "getCounties",
             "getCountiesByState", "getHighRiskCounties", "getHighValueCounties",
             "getPermitHistory", "getPermitHistorySummary", "getTopCountiesByPermits",
             "getMarketsByBrand", "getMarketsByClient" }
NotFoundOps == { "getMarketById", "getMarketByLegacyId", "getCountyByFips", "getStateTrends" }
CreateOps == { "createMarket", "createCostAdder" }
UpdateOps == { "updateMarket", "updateCostAdder" }
\* findMarketByCounty, findMarketByState and findMarketByZip return what lookupMarket returns
LookupOps == { "lookupMarket", "findMarketByCounty", "findMarketByState", "findMarketByZip" }
StatsOps == { "getCountyStats" }
VoidOps == { "deleteMarket", "deleteCostAdder" }
Ops == ListOps \cup NotFoundOps \cup CreateOps \cup UpdateOps \cup LookupOps
         \cup StatsOps \cup VoidOps \cup { "healthCheck", "checkPermitHistoryAccess" }

\* a variant of unwrap that hands the payload back unchecked
unwrapUnchecked(op, body) ==
    IF op \in VoidOps THEN Returned(<< >>)
    ELSE IF op = "healthCheck" THEN Returned(body)
    ELSE IF body.shape = "null"
    THEN Threw(RawError("TypeError", "Cannot read properties of null"))
    ELSE [ kind |-> "returned", error |-> RawError("", ""), value |-> body.data ]

\* a variant of unwrap that reports every missing payload as NOT_FOUND
unwrapAlwaysNotFound(op, body) ==
    IF op \in VoidOps THEN Returned(<< >>)
    ELSE IF op = "healthCheck" THEN Returned(body)
    ELSE IF body.shape = "null"
    THEN Threw(RawError("TypeError", "Cannot read properties of null"))
    ELSE IF IsSome(body.data) THEN Returned(Val(body.data))
    ELSE IF op \in ListOps THEN Returned(<< >>)
    ELSE IF op = "checkPermitHistoryAccess" THEN Returned(<< "has_access: false" >>)
    ELSE Threw(MarketServiceError("not found", "NOT_FOUND", Some(404), None))

\* a variant of unwrap that rejects an envelope whose status is 'error'
unwrapRejectingErrorStatus(op, body) ==
    IF op \in VoidOps THEN Returned(<< >>)
    ELSE IF op = "healthCheck" THEN Returned(body)
    ELSE IF body.shape = "null"
    THEN Threw(RawError("TypeError", "Cannot read properties of null"))
    ELSE IF body.status = "error"
    THEN Threw(MarketServiceError("API request failed", "API_ERROR", None, None))
    ELSE IF IsSome(body.data) THEN Returned(Val(body.data))
    ELSE IF op \in ListOps THEN Returned(<< >>)
    ELSE IF op = "checkPermitHistoryAccess" THEN Returned(<< "has_access: false" >>)
    ELSE Threw(MarketServiceError("not found", "NOT_FOUND", Some(404), None))

\* what the operation does with a 2xx response body; healthCheck hands the
\* body back as it is
unwrap(op, body) ==
    IF op \in VoidOps THEN Returned(<< >>)
    ELSE IF op = "healthCheck" THEN Returned(body)
    ELSE IF body.shape = "null"
    THEN Threw(RawError("TypeError", "Cannot read properties of null"))
    ELSE IF IsSome(body.data) THEN Returned(Val(body.data))
    ELSE IF op \in ListOps THEN Returned(<< >>)
    ELSE IF op = "checkPermitHistoryAccess" THEN Returned(<< "has_access: false" >>)
    ELSE IF op \in NotFoundOps
    THEN Threw(MarketServiceError("not found", "NOT_FOUND", Some(404), None))
    ELSE IF op \in CreateOps
    THEN Threw(MarketServiceError("failed to create", "CREATE_FAILED", None, None))
    ELSE IF op \in UpdateOps
    THEN Threw(MarketServiceError("failed to update", "UPDATE_FAILED", None, None))
    ELSE IF op \in LookupOps
    THEN Threw(MarketServiceError("failed to lookup", "LOOKUP_FAILED", None, None))
    ELSE Threw(MarketServiceError("failed to get county stats", "STATS_FAILED", None, None))

(***************************************************************************)
(* Cost adders: the active-adder filter and the cost summation             *)
(* Dates are instants on the clock `now`.  Amounts are exact: a cost is    *)
(* kept in hundredths, so that cost_value / 100 needs no rounding.         *)
(***************************************************************************)
AdderOf(name, display, type, value, active, retail, lom, county, effective, expiration) ==
    [ adder_name |-> name, display_name |-> display, adder_type |-> type,
      cost_value |-> value, active |-> active, applies_to_retail |-> retail,
      applies_to_lom |-> lom, county_fips |-> county, effective_date |-> effective,
      expiration_date |-> expiration ]

\* the options argument of getActiveCostAdders; both fields absent when the
\* argument is omitted
OptionsOf(quoteType, countyFips) == [ quoteType |-> quoteType, countyFips |-> countyFips ]

\* a variant of keepsAdder that does not look at the expiration date
keepsAdderIgnoringExpiration(adder, options, clock) ==
    /\ adder.active
    /\ ~ (options.quoteType = Some("retail") /\ ~ adder.applies_to_retail)
    /\ ~ (options.quoteType = Some("lom") /\ ~ adder.applies_to_lom)
    /\ ~ (/\ Truthy(options.countyFips)
          /\ Truthy(adder.county_fips)
          /\ Val(adder.county_fips) # Val(options.countyFips))
    /\ ~ (IsSome(adder.effective_date) /\ Val(adder.effective_date) > clock)

\* the predicate given to costAdders.filter: FALSE where the code returns false
keepsAdder(adder, options, clock) ==
    /\ adder.active
    /\ ~ (options.quoteType = Some("retail") /\ ~ adder.applies_to_retail)
    /\ ~ (options.quoteType = Some("lom") /\ ~ adder.applies_to_lom)
    /\ ~ (/\ Truthy(options.countyFips)
          /\ Truthy(adder.county_fips)
          /\ Val(adder.county_fips) # Val(options.countyFips))
    /\ ~ (IsSome(adder.effective_date) /\ Val(adder.effective_date) > clock)
    /\ ~ (IsSome(adder.expiration_date) /\ Val(adder.expiration_date) < clock)

\* costAdders.filter(...)
RECURSIVE filterActive(_, _, _)
filterActive(costAdders, options, clock) ==
    IF costAdders = << >> THEN << >>
    ELSE (IF keepsAdder(Head(costAdders), options, clock) THEN << Head(costAdders) >> ELSE << >>)
         \o filterActive(Tail(costAdders), options, clock)

\* a variant of adderCost that multiplies a per_square adder by the base price
adderCostPerSquareOfBase(adder, basePrice, roofSquares) ==
    CASE adder.adder_type = "percentage" -> basePrice * adder.cost_value
      [] adder.adder_type = "fixed"      -> 100 * adder.cost_value
      [] adder.adder_type = "per_square" -> 100 * adder.cost_value * basePrice
      [] OTHER                           -> 0

\* the switch on adder_type, in hundredths; a type outside the three leaves cost 0
adderCost(adder, basePrice, roofSquares) ==
    CASE adder.adder_type = "percentage" -> basePrice * adder.cost_value
      [] adder.adder_type = "fixed"      -> 100 * adder.cost_value
      [] adder.adder_type = "per_square" -> 100 * adder.cost_value * roofSquares
      [] OTHER                           -> 0

\* the loop of calculateCostAdders over costAdders[i..]
RECURSIVE calculateFrom(_, _, _, _, _)
calculateFrom(costAdders, i, basePrice, roofSquares, acc) ==
    IF i > Len(costAdders) THEN acc
    ELSE LET adder == costAdders[i]
             cost  == adderCost(adder, basePrice, roofSquares)
         IN  calculateFrom(costAdders, i + 1, basePrice, roofSquares,
                 [ totalAdderCost |-> acc.totalAdderCost + cost,
                   breakdown |-> Append(acc.breakdown,
                       [ name |-> IF Truthy(adder.display_name)
                                  THEN Val(adder.display_name) ELSE adder.adder_name,
                         type |-> adder.adder_type,
                         cost |-> cost ]) ])

calculateCostAdders(costAdders, basePrice, roofSquares) ==
    calculateFrom(costAdders, 1, basePrice, roofSquares,
                  [ totalAdderCost |-> 0, breakdown |-> << >> ])

(***************************************************************************)
(* Requests and their completion                                           *)
(***************************************************************************)
\* this.client.get/post/put/delete(...): the request leaves with the headers
\* merged at this moment; args are the caller's arguments that the operation
\* uses after the response (None when it uses none)
DispatchArgs(op, args) ==
    /\ phase = "ready"
    /\ Cardinality(inflight) < MaxInflight
    /\ nextId < MaxRequests
    /\ inflight' = inflight \cup
          { [ id |-> nextId + 1, op |-> op, args |-> args,
              headers |-> requestHeaders(Val(client)),
              keySetBefore |-> lastKeySet, jwtOpBefore |-> lastJwtOp ] }
    /\ nextId' = nextId + 1
    /\ UNCHANGED << phase, config, environment, baseURL, client, versionCallbacks,
                    versionStatus, unsubscribers, warnings, ctorError, now,
                    lastKeySet, lastJwtOp >>
    /\ last' = NoLast
    /\ UNCHANGED << pure, hook >>

Dispatch(op) == DispatchArgs(op, None)

\* getActiveCostAdders(marketId, options): its first step is the request of
\* getCostAdders(marketId); the filter runs when the response is in
getActiveCostAdders(options) == DispatchArgs("getActiveCostAdders", options)

\* what the operation hands back for a 2xx response body read at time clock
complete(r, body, clock) ==
    IF r.op = "getActiveCostAdders"
    THEN LET costAdders == unwrap("getCostAdders", body)
             options    == IF IsSome(r.args) THEN Val(r.args) ELSE OptionsOf(None, None)
         IN  IF costAdders.kind = "returned"
             THEN Returned(filterActive(Val(costAdders.value), options, clock))
             ELSE costAdders
    ELSE unwrap(r.op, body)

\* a caller that awaits each call before it makes the next one
DispatchSequential(op) ==
    /\ inflight = { }
    /\ Dispatch(op)

\* the tracker part shared by both interceptor branches that see a response
TrackerStep(r, kind, status, h, body, t, outcome) ==
    /\ Len(t.cbs) <= MaxSubs
    /\ versionStatus' = t.vs
    /\ versionCallbacks' = t.cbs
    /\ unsubscribers' = t.unsub
    /\ inflight' = inflight \ { r }
    /\ now' = now + 1
    /\ last' = [ kind |-> kind, req |-> Some(r),
                 resp |-> Some([ status |-> status, headers |-> h, body |-> body ]),
                 before |-> versionStatus, cbsBefore |-> versionCallbacks,
                 calls |-> t.calls, outcome |-> Some(outcome), at |-> now,
                 cause |-> "" ]
    /\ UNCHANGED << phase, config, environment, baseURL, client, warnings, ctorError,
                    nextId, lastKeySet, lastJwtOp >>
    /\ UNCHANGED << pure, hook >>

\* a 2xx response: the fulfilled interceptor, then the operation's unwrapping
RespondSuccess(r, h, body) ==
    /\ r \in inflight
    /\ LET t == parseVersionHeaders(h, now, versionStatus, versionCallbacks, unsubscribers)
       IN  TrackerStep(r, "success", 200, h, body, t,
                       IF t.thrown THEN CallbackThrew ELSE complete(r, body, now))

\* a variant of RespondError that does not look at the response's headers
RespondErrorSkippingHeaders(r, status, h, body) ==
    /\ r \in inflight
    /\ LET t == parseVersionHeaders(HeadersOf(None, None, None, None, None), now,
                                    versionStatus, versionCallbacks, unsubscribers)
       IN  TrackerStep(r, "errorResponse", status, h, body, t, handleErrorResponse(status, h, body))

\* a non-2xx response: the rejected interceptor with error.response set
RespondError(r, status, h, body) ==
    /\ r \in inflight
    /\ LET t == parseVersionHeaders(h, now, versionStatus, versionCallbacks, unsubscribers)
       IN  TrackerStep(r, "errorResponse", status, h, body, t,
                       IF t.thrown THEN CallbackThrew ELSE handleErrorResponse(status, h, body))

\* the request was sent and no response came: error.request set, no error.response
NoResponse(r) ==
    /\ r \in inflight
    /\ inflight' = inflight \ { r }
    /\ last' = [ kind |-> "noResponse", req |-> Some(r), resp |-> None,
                 before |-> versionStatus, cbsBefore |-> versionCallbacks,
                 calls |-> << >>, outcome |-> Some(handleErrorNoResponse), at |-> now,
                 cause |-> "" ]
    /\ UNCHANGED << phase, config, environment, baseURL, client, versionCallbacks,
                    versionStatus, unsubscribers, warnings, ctorError, nextId, now,
                    lastKeySet, lastJwtOp >>
    /\ UNCHANGED << pure, hook >>

\* the request could not be built or sent: neither error.response nor error.request
SetupFailure(r, message) ==
    /\ r \in inflight
    /\ inflight' = inflight \ { r }
    /\ last' = [ kind |-> "setupFailure", req |-> Some(r), resp |-> None,
                 before |-> versionStatus, cbsBefore |-> versionCallbacks,
                 calls |-> << >>, outcome |-> Some(handleErrorOther(message)), at |-> now,
                 cause |-> message ]
    /\ UNCHANGED << phase, config, environment, baseURL, client, versionCallbacks,
                    versionStatus, unsubscribers, warnings, ctorError, nextId, now,
                    lastKeySet, lastJwtOp >>
    /\ UNCHANGED << pure, hook >>

(***************************************************************************)
(* Subscribing and unsubscribing                                           *)
(***************************************************************************)
onVersionChange(cb) ==
    /\ phase = "ready"
    /\ Len(versionCallbacks) < MaxSubs
    /\ versionCallbacks' = Append(versionCallbacks, cb)
    /\ unsubscribers' = unsubscribers \cup { cb }
    /\ UNCHANGED << phase, config, environment, baseURL, client, versionStatus,
                    warnings, ctorError, inflight, nextId, now, lastKeySet,
                    lastJwtOp >>
    /\ last' = NoLast
    /\ UNCHANGED << pure, hook >>

\* the application calls an unsubscribe function it holds
Unsubscribe(cb) ==
    /\ phase = "ready"
    /\ cb \in unsubscribers
    /\ versionCallbacks' = removeFirst(versionCallbacks, cb)
    /\ UNCHANGED << phase, config, environment, baseURL, client, versionStatus,
                    unsubscribers, warnings, ctorError, inflight, nextId, now,
                    lastKeySet, lastJwtOp >>
    /\ last' = NoLast
    /\ UNCHANGED << pure, hook >>

(***************************************************************************)
(* Specifications                                                          *)
(***************************************************************************)
\* --- configuration resolver: every configuration, constructed once -------
InitConfig == InitWith(AllConfigs)
NextConfig == Construct
SpecConfig == InitConfig /\ [][NextConfig]_vars

\* --- outgoing headers: key rotation, token set / clear, requests ---------
AuthConfigs ==
    { ConfigOf(Some(k), None, None, j, None) :
        k \in { KeyLive, KeyTest }, j \in { None, Some("tokA") } }

PlainHeaders == HeadersOf(None, None, None, None, None)
PayloadEnvelope == Envelope("success", Some(<< "m1" >>), None, None, None)

InitAuth == InitWith(AuthConfigs)
NextAuth ==
    \/ Construct
    \/ \E k \in { KeyLive2, KeyTest } : setApiKey(k)
    \/ \E t \in Tokens : setJwtToken(t)
    \/ clearJwtToken
    \/ Dispatch("getMarkets")
    \/ \E r \in inflight : RespondSuccess(r, PlainHeaders, PayloadEnvelope)
    \/ \E r \in inflight : NoResponse(r)
SpecAuth == InitAuth /\ [][NextAuth]_vars

(***************************************************************************)
(* Claims about the configuration resolver (SpecConfig)                    *)
(***************************************************************************)
\* the URL the documented priority order gives for a configuration
DocumentedBaseURL(cfg) ==
    IF Truthy(cfg.baseURL) THEN Val(cfg.baseURL)
    ELSE IF IsSome(cfg.environment) THEN SERVICE_URLS[Val(cfg.environment)]
    ELSE SERVICE_URLS[detectEnvironmentFromKey(Val(cfg.apiKey))]

\* C2: for every configuration with a non-empty API key the resolved base URL
\* is the explicit baseURL if given, else the default URL of the requested
\* environment, else the default URL of the environment inferred from the key
\* prefix; and without an explicit baseURL it is SERVICE_URLS[environment].
C2_BaseUrlFollowsPriority ==
    phase = "ready" =>
        /\ baseURL = Some(DocumentedBaseURL(config))
        /\ ~ Truthy(config.baseURL) => baseURL = Some(SERVICE_URLS[Val(environment)])

\* C8: a configuration whose apiKey is empty or absent makes the constructor
\* throw a MarketServiceError with code MISSING_API_KEY, before a transport is
\* created, a subscriber is registered or a warning is emitted; and the
\* constructor throws for no other configuration.
C8_MissingKeyFailsFast ==
    /\ (phase # "new" /\ ~ TruthyChars(config.apiKey)) =>
          /\ phase = "failed"
          /\ IsSome(ctorError)
          /\ Val(ctorError).name = "MarketServiceError"
          /\ Val(ctorError).code = "MISSING_API_KEY"
          /\ client = None
          /\ versionCallbacks = << >>
          /\ warnings = << >>
          /\ environment = None
          /\ baseURL = None
    /\ (phase = "failed") => ~ TruthyChars(config.apiKey)

\* the constructor threw for an empty key although the configuration asks for
\* production (a mismatch warning otherwise) and carries a subscriber
C8_Witness ==
    /\ phase = "failed"
    /\ config.apiKey = Some(<< >>)
    /\ config.environment = Some("production")
    /\ IsSome(config.onVersionChange)

(***************************************************************************)
(* Claims about the outgoing headers (SpecAuth)                            *)
(***************************************************************************)
\* C3: a request dispatched after setApiKey(k) carries k as X-API-Key, and a
\* request dispatched before any rotation carries the construction key; the
\* headers of a request in flight are those attached at dispatch.
C3_RotatedKeyIsSent ==
    \A r \in inflight :
        r.headers["X-API-Key"] =
            IF IsSome(r.keySetBefore) THEN r.keySetBefore ELSE Val(client).top["X-API-Key"]

\* C4: a request dispatched after setJwtToken(t) carries Authorization:
\* Bearer t, and one dispatched after clearJwtToken() carries no
\* Authorization header, whichever of the two was called last and whether or
\* not the constructor was given a jwtToken.
C4_AuthorizationFollowsLastCall ==
    \A r \in inflight :
        IsSome(r.jwtOpBefore) =>
            IF Val(r.jwtOpBefore)[1] = "set"
            THEN r.headers["Authorization"] = Some(Bearer(Val(r.jwtOpBefore)[2]))
            ELSE r.headers["Authorization"] = None

(***************************************************************************)
(* Version-status tracker: subscribers and responses with version headers  *)
(***************************************************************************)
V120 == << "1", ".", "2", ".", "0" >>

TrackerConfigs ==
    { ConfigOf(Some(KeyTest), None, None, None, cb) : cb \in { None, Some("cbA") } }

TrackerHeaders ==
    { HeadersOf(st, la, mi, None, None) :
        st \in { None, Some("current"), Some("deprecated") },
        la \in { None, Some(V120) },
        mi \in { None } }

InitTracker == InitWith(TrackerConfigs)
NextTracker ==
    \/ Construct
    \/ \E cb \in TrackerCallbacks : onVersionChange(cb)
    \/ \E cb \in TrackerCallbacks : Unsubscribe(cb)
    \/ Dispatch("getMarkets")
    \/ \E r \in inflight, h \in TrackerHeaders : RespondSuccess(r, h, PayloadEnvelope)
SpecTracker == InitTracker /\ [][NextTracker]_vars

\* the latest completed call saw a response
SawResponse == last.kind \in { "success", "errorResponse" }

\* the latest response carried a version header, and what it made the status
SawVersionHeaders == SawResponse /\ hasVersionHeaders(Val(last.resp).headers)

\* the latest response was a transition: no status stored before it, or the
\* status it stored differs from the one before in status or in latest
WasTransition ==
    /\ SawVersionHeaders
    /\ \/ last.before = None
       \/ Val(last.before).status # Val(versionStatus).status
       \/ Val(last.before).latest # Val(versionStatus).latest

\* C5: with subscribers registered, a response that carries version headers
\* starts a notification if and only if no status was stored before it or the
\* new status differs from the stored one in status or latest (so the second
\* of two responses with the same status/latest headers notifies nobody); the
\* notification starts with the first registered subscriber and every call of
\* it passes the newly stored status object.
C5_NotifyIffTransition ==
    (SawVersionHeaders /\ last.cbsBefore # << >>) =>
        /\ (last.calls # << >>) <=> WasTransition
        /\ last.calls # << >> => last.calls[1][1] = last.cbsBefore[1]
        /\ \A i \in 1..Len(last.calls) : last.calls[i][2] = Val(versionStatus)

\* the second response ever repeats the status and latest of the first one,
\* which stored the first status; subscribers are registered and none is called
C5_Witness ==
    /\ SawVersionHeaders
    /\ now = 2
    /\ last.cbsBefore # << >>
    /\ IsSome(last.before)
    /\ Val(last.before).checkedAt = 0
    /\ Val(last.before).status = Val(versionStatus).status
    /\ Val(last.before).latest = Val(versionStatus).latest
    /\ Val(versionStatus).checkedAt = 1
    /\ last.calls = << >>

\* --- callbacks that change the subscriber list while being notified -------
InitReentrant == InitWith(TrackerConfigs)
NextReentrant ==
    \/ Construct
    \/ \E cb \in ReentrantCallbacks : onVersionChange(cb)
    \/ \E cb \in ReentrantCallbacks : Unsubscribe(cb)
    \/ Dispatch("getMarkets")
    \/ \E r \in inflight, h \in TrackerHeaders : RespondSuccess(r, h, PayloadEnvelope)
SpecReentrant == InitReentrant /\ [][NextReentrant]_vars

Occurrences(seq, x) == Cardinality({ i \in 1..Len(seq) : seq[i] = x })
CalledCallbacks == [ i \in 1..Len(last.calls) |-> last.calls[i][1] ]

\* C6: when a callback registers or removes a subscriber during a transition
\* notification (and no callback throws), every other subscriber registered
\* when the notification began is invoked exactly once per registration.
C6_MutationDuringNotifyIsSafe ==
    (WasTransition /\ last.outcome # Some(CallbackThrew)) =>
        \A cb \in Callbacks :
            CallbackBehaviour[cb] = "plain" =>
                Occurrences(CalledCallbacks, cb) = Occurrences(last.cbsBefore, cb)

(***************************************************************************)
(* Failure outcomes (SpecErrors)                                           *)
(***************************************************************************)
ErrorConfigs ==
    { ConfigOf(Some(KeyTest), None, None, None, cb) : cb \in { None, Some("cbA") } }

\* one operation of each way of unwrapping
ErrorOps == { "getMarkets", "getMarketById", "createMarket", "updateMarket", "lookupMarket",
              "getCountyStats", "deleteMarket", "healthCheck", "checkPermitHistoryAccess" }

ErrorStatuses == { 401, 403, 429, 500, 503 }

\* retry-after: absent, delay-seconds ("30", "0"), or an HTTP-date ("Wed, ...")
RetryAfterValues == { None, Some(<< "3", "0" >>), Some(<< "0" >>), Some(<< "W", "e", "d" >>) }

ErrorHeaders ==
    { HeadersOf(st, None, None, None, ra) :
        st \in { None, Some("deprecated") }, ra \in RetryAfterValues }

ErrorBodies ==
    { NullBody, StringBody } \cup
    { Envelope("error", None, m, e, c) :
        m \in { None, Some("msg") },
        e \in { None, Some("err") },
        c \in { None, Some("EXPIRED_API_KEY") } }

SuccessBodies == { PayloadEnvelope, Envelope("success", None, None, None, None) }

InitErrors == InitWith(ErrorConfigs)
NextErrors ==
    \/ Construct
    \/ onVersionChange("cbThrow")
    \/ \E op \in ErrorOps : Dispatch(op)
    \/ \E r \in inflight, body \in SuccessBodies : RespondSuccess(r, PlainHeaders, body)
    \/ \E r \in inflight, st \in ErrorStatuses, h \in ErrorHeaders, body \in ErrorBodies :
          RespondError(r, st, h, body)
    \/ \E r \in inflight : NoResponse(r)
    \/ \E r \in inflight, m \in { "", "Network Error" } : SetupFailure(r, m)
SpecErrors == InitErrors /\ [][NextErrors]_vars

Completed == last.kind # "none"
Outcome == Val(last.outcome)

\* C1: whatever the failure (a non-2xx response with any body, no response, a
\* request that could not be built) and whoever is subscribed, the error that
\* reaches the caller is a MarketServiceError.
C1_EveryFailureIsTyped ==
    (Completed /\ last.kind \in { "errorResponse", "noResponse", "setupFailure" }) =>
        /\ Outcome.kind = "threw"
        /\ Outcome.error.name = "MarketServiceError"

\* the code the claim derives from the HTTP status
CodeFromStatus(status) ==
    CASE status = 401 -> "INVALID_API_KEY"
      [] status = 403 -> "INSUFFICIENT_PERMISSIONS"
      [] status = 429 -> "RATE_LIMITED"
      [] OTHER -> "API_ERROR"

\* C7: for a non-2xx response turned into a MarketServiceError, the code is
\* the envelope's errorCode when it carries one and is derived from the HTTP
\* status only when it carries none; statusCode is the HTTP status and the
\* message is the envelope's error, else its message, else a generic string.
C7_EnvelopeCodeWins ==
    (Completed /\ last.kind = "errorResponse" /\ Outcome.error.name = "MarketServiceError") =>
        LET resp == Val(last.resp)
            data == resp.body
        IN  /\ Outcome.error.code =
                  IF Truthy(data.errorCode) THEN Val(data.errorCode) ELSE CodeFromStatus(resp.status)
            /\ Outcome.error.statusCode = Some(resp.status)
            /\ Outcome.error.message =
                  IF Truthy(data.error) THEN Val(data.error)
                  ELSE IF Truthy(data.message) THEN Val(data.message)
                  ELSE "API request failed"

\* C9: a 429 response turned into a MarketServiceError has code RATE_LIMITED,
\* statusCode 429, isRateLimitError() and isRetryable() true; its retryAfter is
\* an integer number of seconds when the response carries a retry-after
\* header (30 for "30") and undefined when it carries none.
C9_RateLimitedWithRetryAfter ==
    (Completed /\ last.kind = "errorResponse" /\ Val(last.resp).status = 429
        /\ Outcome.error.name = "MarketServiceError") =>
        LET e  == Outcome.error
            ra == Val(last.resp).headers.retryAfter
        IN  /\ e.code = "RATE_LIMITED"
            /\ e.statusCode = Some(429)
            /\ isRateLimitError(e)
            /\ isRetryable(e)
            /\ IsSome(ra) => (IsSome(e.retryAfter) /\ ~ Val(e.retryAfter).nan)
            /\ ra = Some(<< "3", "0" >>) => e.retryAfter = Some(Num(30))
            /\ ra = None => e.retryAfter = None

(***************************************************************************)
(* compareVersions as a pure function (SpecCompare)                        *)
(***************************************************************************)
\* version strings are written from their numeric components
FirstComponents == { 1, 2 }
LaterComponents == { 0, 2, 9, 10 }

ComponentLists ==
    UNION { { p \in [ 1..n -> FirstComponents \cup LaterComponents ] :
                /\ p[1] \in FirstComponents
                /\ \A i \in 2..n : p[i] \in LaterComponents } : n \in 1..MaxParts }

DigitChar(d) ==
    CASE d = 0 -> "0" [] d = 1 -> "1" [] d = 2 -> "2" [] d = 3 -> "3" [] d = 4 -> "4"
      [] d = 5 -> "5" [] d = 6 -> "6" [] d = 7 -> "7" [] d = 8 -> "8" [] d = 9 -> "9"

RECURSIVE decimalString(_)
decimalString(n) ==
    IF n < 10 THEN << DigitChar(n) >>
    ELSE decimalString(n \div 10) \o << DigitChar(n % 10) >>

RECURSIVE versionString(_)
versionString(parts) ==
    IF Len(parts) = 1 THEN decimalString(parts[1])
    ELSE versionString(SubSeq(parts, 1, Len(parts) - 1)) \o << "." >>
           \o decimalString(parts[Len(parts)])

InitCompare ==
    /\ InitClient({ ConfigOf(Some(KeyTest), None, None, None, None) })
    /\ hook = HookInitial
    /\ \E pa \in ComponentLists, pb \in ComponentLists :
          pure = [ fn |-> "compareVersions",
                   args |-> << versionString(pa), versionString(pb) >>,
                   given |-> << pa, pb >>,
                   result |-> None ]

CallCompareVersions ==
    /\ pure.fn = "compareVersions"
    /\ pure.result = None
    /\ pure' = [ pure EXCEPT !.result = Some(compareVersions(pure.args[1], pure.args[2])) ]
    /\ UNCHANGED << clientVars, hook >>

NextCompare == CallCompareVersions
SpecCompare == InitCompare /\ [][NextCompare]_vars

\* the i-th of the first three components, a missing one being 0
Component(parts, i) == IF i <= Len(parts) THEN parts[i] ELSE 0

\* the first three components of a precede those of b, left to right
PrecedesOnThree(a, b) ==
    \E i \in 1..3 :
        /\ Component(a, i) < Component(b, i)
        /\ \A j \in 1..(i - 1) : Component(a, j) = Component(b, j)

\* C10: compareVersions orders two versions by their first three numeric
\* components, left to right, a missing component counting as 0: negative when
\* a precedes b, positive when b precedes a, 0 when the three are equal; so
\* 1.2.0 < 1.10.0 (numeric, not lexicographic), 1.0.0 = 1.0.0, 2.0.0 > 1.9.9
\* and 1.2 = 1.2.0.
C10_CompareVersionsIsNumeric ==
    (pure.fn = "compareVersions" /\ IsSome(pure.result)) =>
        LET a == pure.given[1]
            b == pure.given[2]
            res == Val(pure.result)
        IN  /\ res < 0 <=> PrecedesOnThree(a, b)
            /\ res > 0 <=> PrecedesOnThree(b, a)
            /\ res = 0 <=> \A i \in 1..3 : Component(a, i) = Component(b, i)
            /\ (a = << 1, 2, 0 >> /\ b = << 1, 10, 0 >>) => res < 0
            /\ (a = << 1, 0, 0 >> /\ b = << 1, 0, 0 >>) => res = 0
            /\ (a = << 2, 0, 0 >> /\ b = << 1, 9, 9 >>) => res > 0
            /\ (a = << 1, 2 >> /\ b = << 1, 2, 0 >>) => res = 0

\* compare("1.2.0", "1.10.0") returned a negative number
C10_Witness ==
    /\ pure.fn = "compareVersions"
    /\ pure.args = << << "1", ".", "2", ".", "0" >>, << "1", ".", "1", "0", ".", "0" >> >>
    /\ IsSome(pure.result)
    /\ Val(pure.result) < 0

(***************************************************************************)
(* The stored version status as a function of the headers (SpecStatus)     *)
(***************************************************************************)
\* x-sdk-latest values, written from their numeric components
LatestParts == { << 1, 0, 9 >>, << 1, 1, 0 >>, << 1, 10, 0 >>, << 2, 0 >> }

V105 == << "1", ".", "0", ".", "5" >>

StatusHeaders ==
    { HeadersOf(st, la, mi, None, None) :
        st \in { None, Some(""), Some("current"), Some("deprecated"), Some("unsupported") },
        la \in { None } \cup { Some(versionString(p)) : p \in LatestParts },
        mi \in { None, Some(V105) } }

StatusConfigs == { ConfigOf(Some(k), None, None, None, None) : k \in { KeyLive, KeyTest } }

ErrorEnvelope == Envelope("error", None, None, Some("err"), None)

InitStatus == InitWith(StatusConfigs)
NextStatus ==
    \/ Construct
    \/ DispatchSequential("getMarkets")
    \/ \E r \in inflight, h \in StatusHeaders : RespondSuccess(r, h, PayloadEnvelope)
    \/ \E r \in inflight, h \in StatusHeaders : RespondError(r, 500, h, ErrorEnvelope)
SpecStatus == InitStatus /\ [][NextStatus]_vars

\* C11: after a response (2xx or not) that carries at least one of
\* x-sdk-status, x-sdk-latest, x-sdk-minimum (an empty value counting as
\* absent), the stored status has current = 1.1.0, the compiled-in version;
\* latest = the latest header, else current; minimum = the minimum header,
\* else 1.0.0; status = the status header, else unknown; updateRequired iff
\* the status is deprecated or unsupported; updateAvailable iff a latest
\* header was present and 1.1.0 precedes it component by component.
C11_StatusFieldsFollowHeaders ==
    SawVersionHeaders =>
        LET h  == Val(last.resp).headers
            vs == Val(versionStatus)
        IN  /\ vs.current = << "1", ".", "1", ".", "0" >>
            /\ vs.latest = IF TruthyChars(h.latest) THEN Val(h.latest) ELSE vs.current
            /\ vs.minimum = IF TruthyChars(h.minimum) THEN Val(h.minimum)
                             ELSE << "1", ".", "0", ".", "0" >>
            /\ vs.status = IF Truthy(h.status) THEN Val(h.status) ELSE "unknown"
            /\ vs.updateRequired <=> vs.status \in { "deprecated", "unsupported" }
            /\ vs.updateAvailable <=>
                   /\ TruthyChars(h.latest)
                   /\ \E p \in LatestParts :
                          /\ versionString(p) = Val(h.latest)
                          /\ PrecedesOnThree(<< 1, 1, 0 >>, p)

\* a response with x-sdk-status: unsupported and x-sdk-latest: 1.10.0 and no
\* minimum header stored a status that requires and offers an update
C11_Witness ==
    /\ SawVersionHeaders
    /\ Val(last.resp).headers.status = Some("unsupported")
    /\ Val(last.resp).headers.latest = Some(versionString(<< 1, 10, 0 >>))
    /\ Val(last.resp).headers.minimum = None
    /\ Val(versionStatus).updateRequired
    /\ Val(versionStatus).updateAvailable
    /\ Val(versionStatus).minimum = MinimumBaseline

(***************************************************************************)
(* 2xx responses and the envelope's payload (SpecGateway)                  *)
(***************************************************************************)
GatewayConfigs == { ConfigOf(Some(k), None, None, None, None) : k \in { KeyLive, KeyTest } }

\* 2xx bodies: envelopes with and without a payload, whatever their status
\* discriminator and message
GatewayBodies ==
    { Envelope(st, d, m, None, None) :
        st \in { "success", "error" },
        d \in { None, Some(<< "m1" >>) },
        m \in { None, Some("msg") } }

InitGateway == InitWith(GatewayConfigs)
NextGateway ==
    \/ Construct
    \/ \E op \in Ops : Dispatch(op)
    \/ \E r \in inflight, body \in GatewayBodies : RespondSuccess(r, PlainHeaders, body)
SpecGateway == InitGateway /\ [][NextGateway]_vars

\* the latest completed call got a 2xx envelope without a payload
EmptySuccess ==
    /\ last.kind = "success"
    /\ Val(last.resp).body.shape = "object"
    /\ Val(last.resp).body.data = None

LastOp == Val(last.req).op

\* the latest call raised a MarketServiceError with this code
RaisedCode(code) ==
    /\ Outcome.kind = "threw"
    /\ Outcome.error.name = "MarketServiceError"
    /\ Outcome.error.code = code

\* C12: on a 2xx envelope without a payload, getMarketById,
\* getMarketByLegacyId, getCountyByFips and getStateTrends raise a
\* MarketServiceError with code NOT_FOUND, and every list-returning operation
\* returns the empty sequence; none of them returns null or undefined.
C12_EmptyPayloadNotFoundOrEmptyList ==
    EmptySuccess =>
        /\ LastOp \in { "getMarketById", "getMarketByLegacyId", "getCountyByFips",
                         "getStateTrends" } => RaisedCode("NOT_FOUND")
        /\ LastOp \in ListOps =>
               /\ Outcome.kind = "returned"
               /\ Outcome.value = Some(<< >>)

\* getStateTrends got an envelope with status success and no payload and
\* raised NOT_FOUND
C12_Witness ==
    /\ EmptySuccess
    /\ LastOp = "getStateTrends"
    /\ Val(last.resp).body.status = "success"
    /\ RaisedCode("NOT_FOUND")

\* C13: on a 2xx envelope without a payload, createMarket and createCostAdder
\* raise CREATE_FAILED, updateMarket and updateCostAdder raise UPDATE_FAILED,
\* lookupMarket and findMarketByCounty/State/Zip raise LOOKUP_FAILED and
\* getCountyStats raises STATS_FAILED; none of them returns a value.
C13_EmptyPayloadFailureCodes ==
    EmptySuccess =>
        /\ LastOp \in { "createMarket", "createCostAdder" } => RaisedCode("CREATE_FAILED")
        /\ LastOp \in { "updateMarket", "updateCostAdder" } => RaisedCode("UPDATE_FAILED")
        /\ LastOp \in { "lookupMarket", "findMarketByCounty", "findMarketByState",
                         "findMarketByZip" } => RaisedCode("LOOKUP_FAILED")
        /\ LastOp = "getCountyStats" => RaisedCode("STATS_FAILED")

\* findMarketByZip got an envelope without a payload and raised LOOKUP_FAILED
C13_Witness ==
    /\ EmptySuccess
    /\ LastOp = "findMarketByZip"
    /\ RaisedCode("LOOKUP_FAILED")
    /\ Outcome.error.statusCode = None

(***************************************************************************)
(* calculateCostAdders as a pure function (SpecAdders)                     *)
(***************************************************************************)
PlainAdder(name, display, type, value) ==
    AdderOf(name, display, type, value, TRUE, TRUE, TRUE, None, None, None)

\* one adder of each type, a second percentage, and one whose type is none
\* of the three
CalcAdders ==
    { PlainAdder("permit", None, "fixed", 500),
      PlainAdder("mountain", Some("Mountain fee"), "percentage", 10),
      PlainAdder("steep", Some(""), "per_square", 20),
      PlainAdder("tax", None, "percentage", 15),
      PlainAdder("legacy", None, "flat", 7) }

BasePrices == { 0, 10000, 15001 }
RoofSquares == { 0, 5, 35 }

AdderLists(from) == UNION { [ 1..n -> from ] : n \in 0..MaxAdders }

InitAdders ==
    /\ InitClient({ ConfigOf(Some(KeyTest), None, None, None, None) })
    /\ hook = HookInitial
    /\ \E l \in AdderLists(CalcAdders), b \in BasePrices, q \in RoofSquares :
          pure = [ fn |-> "calculateCostAdders", args |-> << l, b, q >>,
                   given |-> << >>, result |-> None ]

CallCalculateCostAdders ==
    /\ pure.fn = "calculateCostAdders"
    /\ pure.result = None
    /\ pure' = [ pure EXCEPT
                   !.result = Some(calculateCostAdders(pure.args[1], pure.args[2], pure.args[3])) ]
    /\ UNCHANGED << clientVars, hook >>

NextAdders == CallCalculateCostAdders
SpecAdders == InitAdders /\ [][NextAdders]_vars

RECURSIVE SumCosts(_)
SumCosts(entries) ==
    IF entries = << >> THEN 0 ELSE Head(entries).cost + SumCosts(Tail(entries))

\* C14: calculateCostAdders returns one breakdown entry per input adder, in
\* input order; a fixed adder costs cost_value, a percentage adder
\* basePrice * cost_value / 100, a per_square adder cost_value * roofSquares
\* (costs below are in hundredths); totalAdderCost is the sum of the entries'
\* costs; fixed 500 + 10% of 10000 + 20 x 5 squares gives 1600 with three
\* entries; the empty list gives total 0 and an empty breakdown.
C14_BreakdownPerAdderAndTotal ==
    (pure.fn = "calculateCostAdders" /\ IsSome(pure.result)) =>
        LET adders == pure.args[1]
            base   == pure.args[2]
            squares == pure.args[3]
            res    == Val(pure.result)
        IN  /\ Len(res.breakdown) = Len(adders)
            /\ \A i \in 1..Len(adders) :
                  /\ res.breakdown[i].type = adders[i].adder_type
                  /\ res.breakdown[i].name \in { adders[i].adder_name } \cup
                         { adders[i].display_name[j] : j \in DOMAIN adders[i].display_name }
                  /\ adders[i].adder_type = "fixed" =>
                         res.breakdown[i].cost = 100 * adders[i].cost_value
                  /\ adders[i].adder_type = "percentage" =>
                         res.breakdown[i].cost = base * adders[i].cost_value
                  /\ adders[i].adder_type = "per_square" =>
                         res.breakdown[i].cost = 100 * adders[i].cost_value * squares
            /\ res.totalAdderCost = SumCosts(res.breakdown)
            /\ (/\ Len(adders) = 3
                /\ adders[1].adder_type = "fixed" /\ adders[1].cost_value = 500
                /\ adders[2].adder_type = "percentage" /\ adders[2].cost_value = 10
                /\ adders[3].adder_type = "per_square" /\ adders[3].cost_value = 20
                /\ base = 10000 /\ squares = 5) => res.totalAdderCost = 100 * 1600
            /\ adders = << >> => (res.totalAdderCost = 0 /\ res.breakdown = << >>)

\* the call with a fixed 500, a 10% and a 20-per-square adder, base price
\* 10000 and 5 squares returned a total of 1600 and three entries
C14_Witness ==
    /\ pure.fn = "calculateCostAdders"
    /\ IsSome(pure.result)
    /\ Len(pure.args[1]) = 3
    /\ pure.args[1][1].adder_type = "fixed"
    /\ pure.args[1][2].adder_type = "percentage"
    /\ pure.args[1][2].cost_value = 10
    /\ pure.args[1][3].adder_type = "per_square"
    /\ pure.args[2] = 10000
    /\ pure.args[3] = 5
    /\ Val(pure.result).totalAdderCost = 160000
    /\ Len(Val(pure.result).breakdown) = 3

(***************************************************************************)
(* getActiveCostAdders: the fetch and the filter (SpecActive)              *)
(***************************************************************************)
FilterOptions ==
    { None } \cup
    { Some(OptionsOf(q, c)) :
        q \in { None, Some("retail"), Some("lom") },
        c \in { None, Some(""), Some("08031") } }

\* every combination of the fields the filter reads
FilterAdders ==
    { AdderOf("any", None, "fixed", 100, a, r, l, c, ef, ex) :
        a \in BOOLEAN, r \in BOOLEAN, l \in BOOLEAN,
        c \in { None, Some("08031"), Some("08001") },
        ef \in { None, Some(0), Some(1), Some(2) },
        ex \in { None, Some(0), Some(1), Some(2) } }

\* adders told apart by name, each failing at most one test of the filter
NamedAdders ==
    { AdderOf("plain", None, "fixed", 100, TRUE, TRUE, TRUE, None, None, None),
      AdderOf("inactive", None, "fixed", 100, FALSE, TRUE, TRUE, None, None, None),
      AdderOf("lomOnly", None, "fixed", 100, TRUE, FALSE, TRUE, None, None, None),
      AdderOf("denver", None, "fixed", 100, TRUE, TRUE, TRUE, Some("08031"), None, None),
      AdderOf("adams", None, "fixed", 100, TRUE, TRUE, TRUE, Some("08001"), None, None),
      AdderOf("window", None, "fixed", 100, TRUE, TRUE, TRUE, None, Some(1), Some(1)) }

AdderBodies ==
    { Envelope("success", Some(l), None, None, None) :
        l \in AdderLists(NamedAdders) \cup { << a >> : a \in FilterAdders } }
    \cup { Envelope("success", None, None, None, None) }

InitActive == InitWith({ ConfigOf(Some(KeyTest), None, None, None, None) })
NextActive ==
    \/ Construct
    \/ \E o \in FilterOptions : inflight = { } /\ getActiveCostAdders(o)
    \/ \E r \in inflight, body \in AdderBodies : RespondSuccess(r, PlainHeaders, body)
SpecActive == InitActive /\ [][NextActive]_vars

\* the latest completed call is a getActiveCostAdders that fetched a list
FilteredFetch ==
    /\ last.kind = "success"
    /\ LastOp = "getActiveCostAdders"
    /\ IsSome(Val(last.resp).body.data)

Fetched == Val(Val(last.resp).body.data)
Requested == IF IsSome(Val(last.req).args) THEN Val(Val(last.req).args) ELSE OptionsOf(None, None)

\* C15: getActiveCostAdders returns, in fetched order, exactly the adders
\* that are active, apply to the requested quote type (if one is given), are
\* unscoped or scoped to the requested county (if a non-empty one is given),
\* whose effective date is not after the time of the call and whose
\* expiration date is not before it; an adder with a past expiration date is
\* never returned, and an adder scoped to another county is never returned
\* when a county filter is given.
C15_ActiveAddersAreFiltered ==
    FilteredFetch =>
        LET Qualifies(a) ==
                /\ a.active
                /\ Requested.quoteType = Some("retail") => a.applies_to_retail
                /\ Requested.quoteType = Some("lom") => a.applies_to_lom
                /\ Truthy(Requested.countyFips) =>
                       (a.county_fips = None \/ a.county_fips = Requested.countyFips)
                /\ IsSome(a.effective_date) => Val(a.effective_date) <= last.at
                /\ IsSome(a.expiration_date) => Val(a.expiration_date) >= last.at
            returned == Val(Outcome.value)
        IN  /\ Outcome.kind = "returned"
            /\ returned = SelectSeq(Fetched, Qualifies)
            /\ \A i \in 1..Len(Fetched) :
                  LET a == Fetched[i]
                  IN  /\ (IsSome(a.expiration_date) /\ Val(a.expiration_date) < last.at) =>
                             \A j \in 1..Len(returned) : returned[j] # a
                      /\ (/\ Truthy(Requested.countyFips)
                          /\ IsSome(a.county_fips)
                          /\ a.county_fips # Requested.countyFips) =>
                             \A j \in 1..Len(returned) : returned[j] # a

\* at time 2, with the county filter 08031, the fetched list [adams, window,
\* denver, plain] (or a part of it with denver before plain) came back as
\* [denver, plain]: window expired at 1 and adams is scoped to 08001
C15_Witness ==
    /\ FilteredFetch
    /\ last.at = 2
    /\ Requested.countyFips = Some("08031")
    /\ Len(Fetched) >= 3
    /\ \E i \in 1..Len(Fetched) : Fetched[i].adder_name = "window"
    /\ Len(Val(Outcome.value)) = 2
    /\ Val(Outcome.value)[1].adder_name = "denver"
    /\ Val(Outcome.value)[2].adder_name = "plain"

\* C16: the cost-adder helpers work on data already fetched: no request in
\* flight was dispatched by getActiveCostAdders, and what it returns for a
\* fetched list and options does not depend on when it is called.
C16_HelpersAreLocalAndPure ==
    /\ \A r \in inflight : r.op # "getActiveCostAdders"
    /\ FilteredFetch => Outcome = Returned(filterActive(Fetched, Requested, 0))

(***************************************************************************)
(* Order and completeness of a notification (SpecReentrant)                *)
(***************************************************************************)
\* C17: on every version-status transition in which no subscriber throws,
\* the subscribers registered when the response arrived are all invoked
\* within the handling of that response, once per registration and in
\* registration order (the config.onVersionChange callback, registered by
\* the constructor, first); a subscriber no longer registered is not invoked.
C17_AllSubscribersNotifiedInOrder ==
    (WasTransition /\ last.outcome # Some(CallbackThrew)) =>
        CalledCallbacks = last.cbsBefore

(***************************************************************************)
(* A client over its lifetime: rotation, tokens, subscribers, requests     *)
(* (SpecLifetime)                                                          *)
(***************************************************************************)
LifetimeConfigs ==
    { ConfigOf(Some(k), e, u, None, None) :
        k \in { KeyLive, KeyTest },
        e \in { None, Some("staging") },
        u \in { None, Some(CustomURL) } }

DeprecatedHeaders == HeadersOf(Some("deprecated"), None, None, None, None)

InitLifetime == InitWith(LifetimeConfigs)
NextLifetime ==
    \/ Construct
    \/ \E k \in { KeyLive2, KeyTest, << >> } : setApiKey(k)
    \/ setJwtToken("tokA")
    \/ clearJwtToken
    \/ onVersionChange("cbA")
    \/ Unsubscribe("cbA")
    \/ DispatchSequential("getMarkets")
    \/ \E r \in inflight, h \in { PlainHeaders, DeprecatedHeaders } :
          RespondSuccess(r, h, PayloadEnvelope)
    \/ \E r \in inflight : RespondError(r, 503, DeprecatedHeaders, ErrorEnvelope)
    \/ \E r \in inflight : NoResponse(r)
    \/ \E r \in inflight : SetupFailure(r, "Network Error")
SpecLifetime == InitLifetime /\ [][NextLifetime]_vars

\* a step of setApiKey, setJwtToken or clearJwtToken: the only steps that
\* change the configuration or the transport of a constructed client
KeyOrTokenStep == phase = "ready" /\ (config' # config \/ client' # client)

\* C18: once the client is constructed no step changes its environment or
\* its base URL (the field and the transport's), whatever key is rotated in;
\* and a step of setApiKey, setJwtToken or clearJwtToken changes neither the
\* stored version status nor the subscriber list.
C18_ResolutionIsFrozen ==
    [][ /\ phase = "ready" =>
              /\ environment' = environment
              /\ baseURL' = baseURL
              /\ Val(client').baseURL = Val(client).baseURL
              /\ requestHeaders(Val(client'))["X-Environment"] = environment
        /\ KeyOrTokenStep =>
              /\ versionStatus' = versionStatus
              /\ versionCallbacks' = versionCallbacks ]_vars

\* a client constructed with a test key and no environment (development,
\* localhost) holds a live key after setApiKey and is still development
C18_Witness ==
    /\ phase = "ready"
    /\ lastKeySet = Some(KeyLive2)
    /\ config.apiKey = Some(KeyLive2)
    /\ config.environment = None
    /\ config.baseURL = None
    /\ environment = Some("development")
    /\ baseURL = Some(SERVICE_URLS["development"])

\* C20: the API key of a constructed client is never empty, in the
\* configuration and in the X-API-Key header of the next request, after any
\* sequence of setApiKey calls.
C20_ApiKeyNeverEmpty ==
    phase = "ready" =>
        /\ TruthyChars(config.apiKey)
        /\ TruthyChars(requestHeaders(Val(client))["X-API-Key"])

(***************************************************************************)
(* The predicates of MarketServiceError as pure functions (SpecPredicates) *)
(***************************************************************************)
\* the codes the client produces and the codes the service documents
ErrorCodes ==
    { "MISSING_API_KEY", "INVALID_API_KEY", "EXPIRED_API_KEY", "INVALID_JWT",
      "EXPIRED_JWT", "INSUFFICIENT_PERMISSIONS", "RATE_LIMITED", "API_ERROR",
      "NETWORK_ERROR", "UNKNOWN_ERROR", "NOT_FOUND", "CREATE_FAILED",
      "UPDATE_FAILED", "LOOKUP_FAILED", "STATS_FAILED" }

StatusCodes == { None } \cup { Some(c) : c \in { 400, 401, 403, 404, 429, 500, 502, 503, 504 } }

InitPredicates ==
    /\ InitClient({ ConfigOf(Some(KeyTest), None, None, None, None) })
    /\ hook = HookInitial
    /\ \E code \in ErrorCodes, statusCode \in StatusCodes, retryAfter \in { None, Some(Num(30)) } :
          pure = [ fn |-> "MarketServiceError",
                   args |-> << MarketServiceError("message", code, statusCode, retryAfter) >>,
                   given |-> << >>,
                   result |-> None ]

CallPredicates ==
    /\ pure.fn = "MarketServiceError"
    /\ pure.result = None
    /\ pure' = [ pure EXCEPT
                   !.result = Some([ isAuthError      |-> isAuthError(pure.args[1]),
                                     isRateLimitError |-> isRateLimitError(pure.args[1]),
                                     isRetryable      |-> isRetryable(pure.args[1]) ]) ]
    /\ UNCHANGED << clientVars, hook >>

NextPredicates == CallPredicates
SpecPredicates == InitPredicates /\ [][NextPredicates]_vars

\* C19: for every code and every status, isRetryable() is true exactly when
\* the code is RATE_LIMITED or the HTTP status is 503 or 504, and
\* isRateLimitError() is true exactly when the code is RATE_LIMITED.
C19_RetryableIffRateLimitedOr503Or504 ==
    (pure.fn = "MarketServiceError" /\ IsSome(pure.result)) =>
        LET e == pure.args[1]
        IN  /\ Val(pure.result).isRetryable <=>
                   \/ e.code = "RATE_LIMITED"
                   \/ (IsSome(e.statusCode) /\ Val(e.statusCode) \in { 503, 504 })
            /\ Val(pure.result).isRateLimitError <=> e.code = "RATE_LIMITED"

\* an API_ERROR with status 504 is retryable and not a rate-limit error
C19_Witness ==
    /\ pure.fn = "MarketServiceError"
    /\ IsSome(pure.result)
    /\ pure.args[1].code = "API_ERROR"
    /\ pure.args[1].statusCode = Some(504)
    /\ Val(pure.result).isRetryable
    /\ ~ Val(pure.result).isRateLimitError

(***************************************************************************)
(* The three shapes of a failure, one call at a time (SpecFailures)        *)
(***************************************************************************)
RetryAfter30 == HeadersOf(None, None, None, None, Some(<< "3", "0" >>))

\* the bodies of a non-2xx response, one of them an envelope whose errorCode
\* reports a network failure behind the service
FailureBodies ==
    ErrorBodies \cup { Envelope("error", None, None, Some("upstream unreachable"), Some("NETWORK_ERROR")) }

InitFailures == InitWith(ErrorConfigs)
NextFailures ==
    \/ Construct
    \/ \E op \in ErrorOps : DispatchSequential(op)
    \/ \E r \in inflight, st \in ErrorStatuses \cup { 504 }, h \in { PlainHeaders, RetryAfter30 },
          body \in FailureBodies : RespondError(r, st, h, body)
    \/ \E r \in inflight, body \in SuccessBodies : RespondSuccess(r, PlainHeaders, body)
    \/ \E r \in inflight : NoResponse(r)
    \/ \E r \in inflight, m \in { "", "Network Error" } : SetupFailure(r, m)
SpecFailures == InitFailures /\ [][NextFailures]_vars

\* C21: a failure without a response whose request was sent gives a
\* MarketServiceError NETWORK_ERROR with no statusCode and no retryAfter; a
\* failure with neither response nor request gives UNKNOWN_ERROR with the
\* original message (a generic one if that is empty), no statusCode and no
\* retryAfter; a failure with a response gives neither of the two codes.
C21_FailureShapesAreExclusive ==
    /\ last.kind = "noResponse" =>
          /\ RaisedCode("NETWORK_ERROR")
          /\ Outcome.error.statusCode = None
          /\ Outcome.error.retryAfter = None
    /\ last.kind = "setupFailure" =>
          /\ RaisedCode("UNKNOWN_ERROR")
          /\ Outcome.error.message = IF last.cause # "" THEN last.cause ELSE "Unknown error"
          /\ Outcome.error.statusCode = None
          /\ Outcome.error.retryAfter = None
    /\ last.kind = "errorResponse" =>
          /\ Outcome.kind = "threw"
          /\ Outcome.error.code \notin { "NETWORK_ERROR", "UNKNOWN_ERROR" }

\* C21, amended: the first two parts as stated; an error made for a failure
\* with a response has the code NETWORK_ERROR or UNKNOWN_ERROR only when the
\* response's envelope carries that errorCode, and it then carries the
\* response's HTTP status as statusCode, which the errors of the other two
\* shapes never do.
C21_FailureShapesToldApartByStatus ==
    /\ last.kind = "noResponse" =>
          /\ RaisedCode("NETWORK_ERROR")
          /\ Outcome.error.statusCode = None
          /\ Outcome.error.retryAfter = None
    /\ last.kind = "setupFailure" =>
          /\ RaisedCode("UNKNOWN_ERROR")
          /\ Outcome.error.message = IF last.cause # "" THEN last.cause ELSE "Unknown error"
          /\ Outcome.error.statusCode = None
          /\ Outcome.error.retryAfter = None
    /\ last.kind = "errorResponse" =>
          /\ Outcome.kind = "threw"
          /\ Outcome.error.code \in { "NETWORK_ERROR", "UNKNOWN_ERROR" } =>
                 /\ Val(last.resp).body.errorCode = Some(Outcome.error.code)
                 /\ Outcome.error.statusCode = Some(Val(last.resp).status)

\* a 500 response whose envelope says errorCode NETWORK_ERROR reached the
\* caller as a NETWORK_ERROR with statusCode 500
C21_Witness ==
    /\ last.kind = "errorResponse"
    /\ Val(last.resp).status = 500
    /\ RaisedCode("NETWORK_ERROR")
    /\ Outcome.error.statusCode = Some(500)

\* C28: the errors made for a failure without a response (NETWORK_ERROR,
\* UNKNOWN_ERROR) and the errors the operations make for a 2xx envelope
\* without a payload (NOT_FOUND, CREATE_FAILED, UPDATE_FAILED, LOOKUP_FAILED,
\* STATS_FAILED) are not retryable, not rate-limit and not authentication
\* errors: the status, if any, is neither 503 nor 504 and the code is outside
\* RATE_LIMITED and the six authentication codes.
C28_SynthesizedErrorsAreTerminal ==
    (last.kind \in { "noResponse", "setupFailure", "success" } /\ Outcome.kind = "threw"
        /\ Outcome.error.name = "MarketServiceError") =>
        /\ Outcome.error.code \in { "NETWORK_ERROR", "UNKNOWN_ERROR", "NOT_FOUND", "CREATE_FAILED",
                                     "UPDATE_FAILED", "LOOKUP_FAILED", "STATS_FAILED" }
        /\ ~ isRetryable(Outcome.error)
        /\ ~ isRateLimitError(Outcome.error)
        /\ ~ isAuthError(Outcome.error)
        /\ Outcome.error.statusCode \notin { Some(503), Some(504) }

\* getMarketById got a 2xx envelope without a payload and raised NOT_FOUND
\* with status 404, which none of the three predicates accepts
C28_Witness ==
    /\ last.kind = "success"
    /\ LastOp = "getMarketById"
    /\ RaisedCode("NOT_FOUND")
    /\ Outcome.error.statusCode = Some(404)
    /\ ~ isRetryable(Outcome.error)

(***************************************************************************)
(* What a response stores, header by header (SpecOverwrite)                *)
(***************************************************************************)
OverwriteConfigs ==
    { ConfigOf(Some(KeyTest), None, None, None, cb) : cb \in { None, Some("cbA") } }

\* x-sdk-status absent, in the enumeration, or a word outside it; the other
\* three headers absent or present
OverwriteHeaders ==
    { HeadersOf(st, la, mi, me, None) :
        st \in { None, Some("current"), Some("beta") },
        la \in { None, Some(V120) },
        mi \in { None, Some(V105) },
        me \in { None, Some("msg") } }

InitOverwrite == InitWith(OverwriteConfigs)
NextOverwrite ==
    \/ Construct
    \/ onVersionChange("cbA")
    \/ DispatchSequential("getMarkets")
    \/ \E r \in inflight, h \in OverwriteHeaders : RespondSuccess(r, h, PayloadEnvelope)
    \/ \E r \in inflight, h \in OverwriteHeaders : RespondError(r, 500, h, ErrorEnvelope)
SpecOverwrite == InitOverwrite /\ [][NextOverwrite]_vars

\* C22: after any response that carries a version header,
\* getVersionStatus() is the status computed from that response: its status,
\* latest, minimum and message follow the headers and its checkedAt is the
\* time of the response, also when status and latest are those stored before
\* and no subscriber was notified.
C22_StatusAlwaysOverwritten ==
    SawVersionHeaders =>
        LET h == Val(last.resp).headers
        IN  /\ IsSome(getVersionStatus)
            /\ Val(getVersionStatus).checkedAt = last.at
            /\ Val(getVersionStatus).status = IF Truthy(h.status) THEN Val(h.status) ELSE "unknown"
            /\ Val(getVersionStatus).latest =
                   IF TruthyChars(h.latest) THEN Val(h.latest) ELSE << "1", ".", "1", ".", "0" >>
            /\ Val(getVersionStatus).minimum =
                   IF TruthyChars(h.minimum) THEN Val(h.minimum) ELSE << "1", ".", "0", ".", "0" >>
            /\ Val(getVersionStatus).message = h.message

\* a response repeated the stored status and latest, so the registered
\* subscriber was not called, yet minimum, message and checkedAt are new
C22_Witness ==
    /\ SawVersionHeaders
    /\ last.cbsBefore # << >>
    /\ last.calls = << >>
    /\ IsSome(last.before)
    /\ Val(last.before).minimum = MinimumBaseline
    /\ Val(last.before).message = None
    /\ Val(getVersionStatus).minimum = V105
    /\ Val(getVersionStatus).message = Some("msg")
    /\ Val(getVersionStatus).checkedAt > Val(last.before).checkedAt

\* C23: a response with none of x-sdk-status, x-sdk-latest, x-sdk-minimum
\* leaves the stored status as it was (null if it was null) and the
\* subscriber list as it was, and calls no subscriber, with or without an
\* x-sdk-message header.
C23_NoVersionHeadersNoEffect ==
    (SawResponse /\ LET h == Val(last.resp).headers
                    IN  h.status = None /\ h.latest = None /\ h.minimum = None) =>
        /\ versionStatus = last.before
        /\ versionCallbacks = last.cbsBefore
        /\ last.calls = << >>

\* a response carrying only x-sdk-message came to a client with a subscriber
\* and no stored status, and the status is still null
C23_Witness ==
    /\ SawResponse
    /\ Val(last.resp).headers = HeadersOf(None, None, None, Some("msg"), None)
    /\ last.cbsBefore # << >>
    /\ last.before = None
    /\ versionStatus = None
    /\ last.calls = << >>

\* C25: a stored version status has a status field among current, outdated,
\* deprecated, unsupported and unknown, whatever the x-sdk-status header said.
C25_StatusIsInEnumeration ==
    IsSome(versionStatus) =>
        Val(versionStatus).status \in { "current", "outdated", "deprecated", "unsupported", "unknown" }

(***************************************************************************)
(* Version headers on the failure path (SpecLifetime)                      *)
(***************************************************************************)
\* C24: a non-2xx response with version headers stores the status computed
\* from them and, on a transition, calls the registered subscriber with it
\* within the handling of that response, whose outcome is then the typed
\* error; a failure without a response leaves the stored status as it was
\* and calls nobody.
C24_FailurePathReadsVersionHeaders ==
    /\ (last.kind = "errorResponse" /\ hasVersionHeaders(Val(last.resp).headers)) =>
          /\ IsSome(versionStatus)
          /\ Val(versionStatus).status = Val(Val(last.resp).headers.status)
          /\ Val(versionStatus).checkedAt = last.at
          /\ (last.before = None \/ Val(last.before).status # Val(versionStatus).status) =>
                 /\ CalledCallbacks = last.cbsBefore
                 /\ \A i \in 1..Len(last.calls) : last.calls[i][2] = Val(versionStatus)
          /\ RaisedCode("API_ERROR")
          /\ Outcome.error.statusCode = Some(Val(last.resp).status)
    /\ last.kind \in { "noResponse", "setupFailure" } =>
          /\ versionStatus = last.before
          /\ last.calls = << >>

\* the first response the client saw was a 503 with x-sdk-status:
\* deprecated: the status is stored, the subscriber was called with it, and
\* the caller got the typed error
C24_Witness ==
    /\ last.kind = "errorResponse"
    /\ last.before = None
    /\ last.cbsBefore = << "cbA" >>
    /\ last.calls = << << "cbA", Val(versionStatus) >> >>
    /\ Val(versionStatus).status = "deprecated"
    /\ Val(versionStatus).updateRequired
    /\ RaisedCode("API_ERROR")

(***************************************************************************)
(* Unsubscribe functions and the registrations they remove (SpecTracker)   *)
(***************************************************************************)
\* C26: an unsubscribe function removes only the registration that created
\* it, and nothing when called again; the registration made by the
\* constructor for config.onVersionChange has no unsubscribe function, so it
\* stays in the list, at its head, whatever unsubscribe functions are called.
C26_UnsubscribeRemovesOnlyItsOwn ==
    (phase = "ready" /\ IsSome(config.onVersionChange)) =>
        /\ versionCallbacks # << >>
        /\ Head(versionCallbacks) = Val(config.onVersionChange)

(***************************************************************************)
(* A subscriber that throws (SpecThrow)                                    *)
(***************************************************************************)
\* the constructor registers a throwing subscriber; others register after it
ThrowConfigs == { ConfigOf(Some(k), None, None, None, Some("cbThrow")) : k \in { KeyLive, KeyTest } }

InitThrow == InitWith(ThrowConfigs)
NextThrow ==
    \/ Construct
    \/ \E cb \in { "cbA", "cbB" } : onVersionChange(cb)
    \/ DispatchSequential("getMarkets")
    \/ \E r \in inflight, h \in TrackerHeaders : RespondSuccess(r, h, PayloadEnvelope)
    \/ \E r \in inflight, h \in TrackerHeaders : RespondError(r, 500, h, ErrorEnvelope)
SpecThrow == InitThrow /\ [][NextThrow]_vars

\* the index of the first throwing subscriber in a list, 0 if there is none
FirstThrowing(cbs) ==
    IF \E i \in 1..Len(cbs) : CallbackBehaviour[cbs[i]] = "throw"
    THEN CHOOSE i \in 1..Len(cbs) :
            /\ CallbackBehaviour[cbs[i]] = "throw"
            /\ \A j \in 1..(i - 1) : CallbackBehaviour[cbs[j]] # "throw"
    ELSE 0

\* C27: when a subscriber throws during a transition notification, the
\* stored status is the new one, the subscribers registered after the
\* throwing one are not called, and the caller gets what the subscriber
\* threw; a later response with the same status and latest headers as the
\* stored status calls nobody.
C27_ThrowStopsNotification ==
    /\ (WasTransition /\ FirstThrowing(last.cbsBefore) > 0) =>
          /\ Val(versionStatus).checkedAt = last.at
          /\ Val(versionStatus).status =
                 IF Truthy(Val(last.resp).headers.status)
                 THEN Val(Val(last.resp).headers.status) ELSE "unknown"
          /\ CalledCallbacks = SubSeq(last.cbsBefore, 1, FirstThrowing(last.cbsBefore))
          /\ last.outcome = Some(CallbackThrew)
    /\ (SawVersionHeaders /\ IsSome(last.before)
          /\ Val(last.before).status = Val(versionStatus).status
          /\ Val(last.before).latest = Val(versionStatus).latest) =>
          last.calls = << >>

\* the second response repeats the headers of the first, whose notification
\* the constructor's subscriber ended by throwing: cbA, registered after it,
\* was called for neither
C27_Witness ==
    /\ SawVersionHeaders
    /\ last.cbsBefore = << "cbThrow", "cbA" >>
    /\ IsSome(last.before)
    /\ Val(last.before).checkedAt = 0
    /\ last.at = 1
    /\ Val(last.before).status = Val(versionStatus).status
    /\ Val(last.before).latest = Val(versionStatus).latest
    /\ last.calls = << >>

HookFilters == { None, Some("state=TX") }

\* what the promise of client.getMarkets(filters) settles with: a list of
\* markets, a MarketServiceError of the client, or an error of another class
HookMarkets == { << >>, << "market-1" >>, << "market-1", "market-2" >> }
HookErrors ==
    { MarketServiceError("Network error - unable to reach Market Service", "NETWORK_ERROR", None, None),
      RawError("TypeError", "Cannot read properties of null") }

\* the catch clause of refetch: a MarketServiceError is stored as it is, any
\* other error is wrapped as UNKNOWN_ERROR with its message
caught(e) ==
    IF e.name = "MarketServiceError" THEN e
    ELSE MarketServiceError(e.message, "UNKNOWN_ERROR", None, None)

\* refetch() up to its await, called by the effect on mount, by the effect
\* after the filters changed, or by the component: setLoading(true),
\* setError(null), then client.getMarkets(filters) is in flight; the hook is
\* given a constructed client
refetch(filters) ==
    /\ phase = "ready"
    /\ hook.started < MaxFetches
    /\ hook' = [ hook EXCEPT !.loading = TRUE,
                             !.error = None,
                             !.started = @ + 1,
                             !.pending = @ \cup { [ id |-> hook.started + 1, filters |-> filters ] },
                             !.settled = Append(@, None) ]
    /\ UNCHANGED << clientVars, pure >>

\* the awaited promise of fetch f resolved: setMarkets(data), then the finally
\* clause's setLoading(false)
getMarketsResolved(f, data) ==
    /\ f \in hook.pending
    /\ hook' = [ hook EXCEPT !.markets = data,
                             !.loading = FALSE,
                             !.pending = @ \ { f },
                             !.settled[f.id] = Some(Returned(data)) ]
    /\ UNCHANGED << clientVars, pure >>

\* the awaited promise of fetch f rejected: setError(...), then the finally
\* clause's setLoading(false)
getMarketsRejected(f, e) ==
    /\ f \in hook.pending
    /\ hook' = [ hook EXCEPT !.error = Some(caught(e)),
                             !.loading = FALSE,
                             !.pending = @ \ { f },
                             !.settled[f.id] = Some(Threw(e)) ]
    /\ UNCHANGED << clientVars, pure >>

InitHook == InitWith({ ConfigOf(Some(KeyTest), None, None, None, None) })
NextHook ==
    \/ Construct
    \/ \E filters \in HookFilters : refetch(filters)
    \/ \E f \in hook.pending, data \in HookMarkets : getMarketsResolved(f, data)
    \/ \E f \in hook.pending, e \in HookErrors : getMarketsRejected(f, e)
SpecHook == InitHook /\ [][NextHook]_vars

\* the outcome of the fetch that was started last
LatestFetch == Val(hook.settled[hook.started])

\* C30: loading is false only when no fetch of the hook is in flight, and
\* once every started fetch has settled the hook shows the result of the
\* fetch that was started last: its markets and no error if it resolved,
\* its error if it rejected.
C30_LatestFetchWins ==
    /\ (~hook.loading) => hook.pending = { }
    /\ (hook.started > 0 /\ hook.pending = { }) =>
          IF LatestFetch.kind = "returned"
          THEN hook.markets = Val(LatestFetch.value) /\ hook.error = None
          ELSE hook.error = Some(caught(LatestFetch.error))

====
